---- MODULE Spec2Model ----
(***************************************************************************)
(* A model of PokemonCafe_Tweaked.py: the slot selection policy            *)
(* (select_best_time), the wall-clock waiter (wait_until_datetime) with    *)
(* the start-up wait handling, and the page polling loop of __main__.      *)
(*                                                                         *)
(* Times of day are minutes after midnight.  An absent optional value      *)
(* (Python's None) is the integer None.                                    *)
(***************************************************************************)
EXTENDS Integers, Sequences, FiniteSets, TLC

\* ------------------------------------------------------------------ bounds
\* Largest time of day (minutes after 00:00) offered to select_best_time.
MaxTime == 3
\* Longest slot sequence offered to select_best_time.
MaxSlots == 3

\* Slot links carry the times 00:00 .. 00:MaxMinute (and one that is no time of day).
MaxMinute == 2
\* Most slot links listed on one page.
MaxLinks == 2

\* The wall clock ranges over the minutes within ClockSpan of the opening instant.
ClockSpan == 3

\* Python's None for an optional time, date part or element.
None == -1

Times == 0..MaxTime
OptTimes == Times \cup {None}

SeqsUpTo(S, n) == UNION {[1..k -> S] : k \in 0..n}

VARIABLES
  args,            \* the parsed command line: date, minTime, maxTime, wait, guests
  pc,              \* position of the process
  time_slots,      \* the list of extracted times (select_best_time's first argument)
  best_time_slot,  \* the value select_best_time returned
  clock,           \* the wall clock, minutes at UTC+9
  now,             \* __main__'s now (line 147)
  target,          \* wait_until_datetime's parameter, None while it was never called
  w_now,           \* wait_until_datetime's local now
  time_to_wait,    \* wait_until_datetime's local time_to_wait
  page,            \* what the driver reports in this iteration: title, page_source, elements
  effects,         \* what the iteration did, in order: clicks, selects, sleeps, refreshes
  raised,          \* the exception the iteration raised, "" when none
  session          \* the browser session: the driver and the chromedriver service

selectVars == <<time_slots, best_time_slot>>
clockVars == <<clock, now, target, w_now, time_to_wait>>
loopVars == <<page, effects, raised, session>>
vars == <<args, pc, time_slots, best_time_slot, clock, now, target, w_now, time_to_wait,
          page, effects, raised, session>>

\* The waiter's variables before the process has read the clock.
ClockIdle == clock = 0 /\ now = None /\ target = None /\ w_now = None /\ time_to_wait = None
\* The selector's variables before any slot list was extracted.
SelectIdle == time_slots = <<>> /\ best_time_slot = None

\* ------------------------------------------------------------ the page
\* The texts the loop looks for in driver.page_source.
CaptchaText == "confirm you are human"
TermsText == "/ Agree to terms"
NoSeatsText == "no available seats can be found"
EmailAuthText == "About Email Address Authentication"
CongestedText == "congested"
TableText == "Table Reservation"
CompleteText == "complete your reservation"

\* A non-digit character of the calendar header text; a run of digits is the
\* number it spells.
NonDigit == -2

\* What the driver reports of one page.  page_source is the set of the texts
\* above that it contains; an element field tells what find_element(s) returns.
\* A slot link's label is the sequence of the HH:MM-shaped substrings
\* (<<hh, mm>>) of its text.
BlankPage ==
  [has_title |-> FALSE, has_source |-> FALSE, page_source |-> {},
   agree_checkbox |-> FALSE, agree_checkbox_label |-> FALSE, agree_button |-> FALSE,
   continue_button |-> FALSE,
   time_table |-> FALSE, time_slot_elements |-> <<>>,
   guests_selected |-> FALSE, guest_select |-> FALSE,
   calendar_header |-> FALSE, header_text |-> <<>>,
   next_month_button |-> FALSE, previous_month_button |-> FALSE,
   date_cell |-> "absent", next_button |-> FALSE]

\* The session right after webdriver.Chrome(...) and driver.get(website).
OpenSession == [driver |-> "open", service |-> "running"]
\* The loop's variables between two iterations.
LoopIdle == page = BlankPage /\ effects = <<>> /\ raised = ""

\* ------------------------------------------------------ select_best_time
\* Truth value of an Optional[time]: every datetime.time object is true
\* (midnight included, Python >= 3.5), only None is false.
Truthy(t) == t # None

\* for time_slot in time_slots: if min <= time_slot <= max: return time_slot
ScanBoth_IgnoreMax(slots, i, lo, hi) ==
  LET hit == {j \in i..Len(slots) : slots[j] >= lo}
  IN IF hit = {} THEN None ELSE slots[CHOOSE j \in hit : \A k \in hit : j <= k]
RECURSIVE ScanBoth(_, _, _, _)
ScanBoth(slots, i, lo, hi) ==
  IF i > Len(slots) THEN None
  ELSE IF slots[i] >= lo /\ slots[i] <= hi THEN slots[i]
  ELSE ScanBoth(slots, i + 1, lo, hi)

\* latest_time loop of the min-only branch
RECURSIVE ScanLatest_FirstHit(_, _, _, _)
ScanLatest_FirstHit(slots, i, lo, latest) ==
  IF i > Len(slots) THEN latest
  ELSE ScanLatest_FirstHit(slots, i + 1, lo,
         IF slots[i] >= lo /\ ~Truthy(latest) THEN slots[i] ELSE latest)
RECURSIVE ScanLatest(_, _, _, _)
ScanLatest(slots, i, lo, latest) ==
  IF i > Len(slots) THEN latest
  ELSE ScanLatest(slots, i + 1, lo,
         IF slots[i] >= lo /\ (~Truthy(latest) \/ slots[i] > latest)
         THEN slots[i] ELSE latest)

\* earliest_time loop of the max-only branch
RECURSIVE ScanEarliest_StrictBound(_, _, _, _)
ScanEarliest_StrictBound(slots, i, hi, earliest) ==
  IF i > Len(slots) THEN earliest
  ELSE ScanEarliest_StrictBound(slots, i + 1, hi,
         IF slots[i] < hi /\ (~Truthy(earliest) \/ slots[i] < earliest)
         THEN slots[i] ELSE earliest)
RECURSIVE ScanEarliest(_, _, _, _)
ScanEarliest(slots, i, hi, earliest) ==
  IF i > Len(slots) THEN earliest
  ELSE ScanEarliest(slots, i + 1, hi,
         IF slots[i] <= hi /\ (~Truthy(earliest) \/ slots[i] < earliest)
         THEN slots[i] ELSE earliest)

select_best_time_LastWhenUnbounded(slots, min_time, max_time) ==
  IF Len(slots) = 0 THEN None
  ELSE IF ~Truthy(min_time) /\ ~Truthy(max_time) THEN slots[Len(slots)]
  ELSE IF Truthy(min_time) /\ Truthy(max_time)
       THEN ScanBoth(slots, 1, min_time, max_time)
  ELSE IF Truthy(min_time) THEN ScanLatest(slots, 1, min_time, None)
  ELSE ScanEarliest(slots, 1, max_time, None)
select_best_time(slots, min_time, max_time) ==
  IF Len(slots) = 0 THEN None
  ELSE IF ~Truthy(min_time) /\ ~Truthy(max_time) THEN slots[1]
  ELSE IF Truthy(min_time) /\ Truthy(max_time)
       THEN ScanBoth(slots, 1, min_time, max_time)
  ELSE IF Truthy(min_time) THEN ScanLatest(slots, 1, min_time, None)
  ELSE IF Truthy(max_time) THEN ScanEarliest(slots, 1, max_time, None)
  ELSE None

\* ------------------------------------------- specification SpecSelect
\* select_best_time applied to every slot sequence and every pair of bounds.
DefaultArgs == [date |-> <<2026, 12, 31>>, minTime |-> None, maxTime |-> None,
                wait |-> FALSE, guests |-> 2]

InitSelect ==
  /\ pc = "select"
  /\ \E lo \in OptTimes, hi \in OptTimes :
       args = [DefaultArgs EXCEPT !.minTime = lo, !.maxTime = hi]
  /\ time_slots \in SeqsUpTo(Times, MaxSlots)
  /\ best_time_slot = None
  /\ ClockIdle
  /\ LoopIdle /\ session = OpenSession

SelectBestTime ==
  /\ pc = "select"
  /\ best_time_slot' = select_best_time(time_slots, args.minTime, args.maxTime)
  /\ pc' = "selected"
  /\ UNCHANGED <<args, time_slots, clockVars, loopVars>>

NextSelect == SelectBestTime

SpecSelect == InitSelect /\ [][NextSelect]_vars

\* Declarative reading of the selection policy, used by the claims.
InRange(t, lo, hi) == (lo = None \/ t >= lo) /\ (hi = None \/ t <= hi)
Members(slots) == {slots[i] : i \in 1..Len(slots)}
Qualifying(slots, lo, hi) == {t \in Members(slots) : InRange(t, lo, hi)}
MaxOf(S) == CHOOSE t \in S : \A u \in S : u <= t
MinOf(S) == CHOOSE t \in S : \A u \in S : t <= u
FirstQualifying(slots, lo, hi) ==
  LET hit == {i \in 1..Len(slots) : InRange(slots[i], lo, hi)}
  IN IF hit = {} THEN None ELSE slots[MinOf(hit)]

\* C1: with both bounds set the result is the first element of the slot
\* sequence, in listed order, with min <= t <= max (inclusive), and None when
\* no element lies in the range.
C1_BothBoundsFirstInRange ==
  (pc = "selected" /\ args.minTime # None /\ args.maxTime # None) =>
    /\ best_time_slot = FirstQualifying(time_slots, args.minTime, args.maxTime)
    /\ best_time_slot # None =>
         /\ best_time_slot \in Members(time_slots)
         /\ args.minTime <= best_time_slot /\ best_time_slot <= args.maxTime
    /\ (best_time_slot = None) =
         (Qualifying(time_slots, args.minTime, args.maxTime) = {})

\* Both bounds set, the first listed slot is out of range, a later one is
\* selected although a still later one qualifies too (scenario C's shape).
C1_Witness ==
  /\ pc = "selected" /\ args.minTime # None /\ args.maxTime # None
  /\ Len(time_slots) = 3
  /\ ~InRange(time_slots[1], args.minTime, args.maxTime)
  /\ best_time_slot = time_slots[2]
  /\ InRange(time_slots[3], args.minTime, args.maxTime)
  /\ time_slots[3] < time_slots[2]

\* C2: with only min set the result is the maximum of the elements >= min,
\* whatever their order and multiplicity, and None when there is none.
C2_MinOnlyLatest ==
  (pc = "selected" /\ args.minTime # None /\ args.maxTime = None) =>
    LET q == Qualifying(time_slots, args.minTime, None)
    IN best_time_slot = IF q = {} THEN None ELSE MaxOf(q)

\* Only min set, unsorted slots with one below min, the maximum is not the
\* first qualifying element (scenario A's shape).
C2_Witness ==
  /\ pc = "selected" /\ args.minTime # None /\ args.maxTime = None
  /\ Len(time_slots) = 3
  /\ time_slots[1] < args.minTime
  /\ time_slots[2] >= args.minTime
  /\ time_slots[3] > time_slots[2]
  /\ best_time_slot = time_slots[3]

\* C3: with only max set the result is the minimum of the elements <= max,
\* whatever their order and multiplicity, and None when there is none.
C3_MaxOnlyEarliest ==
  (pc = "selected" /\ args.minTime = None /\ args.maxTime # None) =>
    LET q == Qualifying(time_slots, None, args.maxTime)
    IN best_time_slot = IF q = {} THEN None ELSE MinOf(q)

\* Only max set, a slot equal to max qualifies and an earlier one, listed
\* later, is selected; another slot lies above max.
C3_Witness ==
  /\ pc = "selected" /\ args.minTime = None /\ args.maxTime # None
  /\ Len(time_slots) = 3
  /\ time_slots[1] = args.maxTime
  /\ time_slots[2] > args.maxTime
  /\ time_slots[3] < time_slots[1]
  /\ best_time_slot = time_slots[3]
\* ------------------------------------------------------- datetime.date
IsLeap(y) == (y % 4 = 0 /\ y % 100 # 0) \/ y % 400 = 0
DaysInMonth(y, m) ==
  IF m = 2 THEN (IF IsLeap(y) THEN 29 ELSE 28)
  ELSE IF m \in {4, 6, 9, 11} THEN 30 ELSE 31
DaysBeforeYear(y) == (y - 1) * 365 + (y - 1) \div 4 - (y - 1) \div 100 + (y - 1) \div 400
RECURSIVE DaysBeforeMonth(_, _)
DaysBeforeMonth(y, m) ==
  IF m = 1 THEN 0 ELSE DaysBeforeMonth(y, m - 1) + DaysInMonth(y, m - 1)
\* date.toordinal(): days since 0001-01-01, that day being 1
ToOrdinal(d) == DaysBeforeYear(d[1]) + DaysBeforeMonth(d[1], d[2]) + d[3]
\* a datetime at UTC+9 as minutes since 0001-01-01 00:00 (+1 day) at UTC+9
DateTime(d, hour, minute) == ToOrdinal(d) * (24 * 60) + hour * 60 + minute

\* ------------------------------------------------ start-up wait handling
\* reservations_open = datetime(date, 18:00, UTC+9) - timedelta(days=31)
reservations_open(d) == DateTime(d, 18, 0) - 31 * (24 * 60)
\* target_time = reservations_open - timedelta(minutes=1)
target_time(d) == reservations_open(d) - 1

WaitDates == {<<2026, 12, 31>>, <<2027, 3, 1>>}
ClockRange(d) == (reservations_open(d) - ClockSpan)..(reservations_open(d) + ClockSpan)
StartupPcs == {"start", "wait_check", "wait_sleep", "start_driver"}

InitWait ==
  /\ pc = "start"
  /\ \E d \in WaitDates, w \in BOOLEAN :
       /\ args = [DefaultArgs EXCEPT !.date = d, !.wait = w]
       /\ clock \in ClockRange(d)
  /\ now = None /\ target = None /\ w_now = None /\ time_to_wait = None
  /\ SelectIdle
  /\ LoopIdle /\ session = [driver |-> "none", service |-> "none"]

\* lines 144-157: read the clock, then wait for the opening instant or skip
HandleWait ==
  /\ pc = "start"
  /\ now' = clock
  /\ IF args.wait /\ clock < target_time(args.date)
     THEN target' = reservations_open(args.date) /\ pc' = "wait_check"
     ELSE target' = target /\ pc' = "start_driver"
  /\ UNCHANGED <<args, clock, w_now, time_to_wait, selectVars, loopVars>>

\* wait_until_datetime, lines 21-26: read the clock, return or compute the sleep
WaitCheck ==
  /\ pc = "wait_check"
  /\ w_now' = clock
  /\ IF clock >= target
     THEN pc' = "start_driver" /\ time_to_wait' = time_to_wait
     ELSE pc' = "wait_sleep" /\ time_to_wait' = target - clock
  /\ UNCHANGED <<args, clock, now, target, selectVars, loopVars>>

\* wait_until_datetime, line 27: sleep() returns, whatever the wall clock
\* shows by then, and the loop rechecks
WaitWake_NoRecheck ==
  /\ pc = "wait_sleep"
  /\ pc' = "start_driver"
  /\ UNCHANGED <<args, clockVars, selectVars, loopVars>>
WaitWake ==
  /\ pc = "wait_sleep"
  /\ pc' = "wait_check"
  /\ UNCHANGED <<args, clockVars, selectVars, loopVars>>

\* the wall clock advances
ClockTick ==
  /\ pc \in StartupPcs
  /\ clock < reservations_open(args.date) + ClockSpan
  /\ clock' = clock + 1
  /\ UNCHANGED <<args, pc, now, target, w_now, time_to_wait, selectVars, loopVars>>

\* the wall clock is set back (an adjustment)
ClockAdjust ==
  /\ pc \in StartupPcs
  /\ \E c \in ClockRange(args.date) : c < clock /\ clock' = c
  /\ UNCHANGED <<args, pc, now, target, w_now, time_to_wait, selectVars, loopVars>>

\* lines 159-166: the WebDriver starts and the control loop is entered
StartDriver ==
  /\ pc = "start_driver"
  /\ pc' = "top"
  /\ session' = OpenSession
  /\ UNCHANGED <<args, clockVars, selectVars, page, effects, raised>>

NextWait ==
  \/ HandleWait
  \/ WaitCheck
  \/ WaitWake
  \/ ClockTick
  \/ ClockAdjust
  \/ StartDriver

SpecWait == InitWait /\ [][NextWait]_vars
\* sleep() returns and the waiter's own steps are taken: the process is the
\* only thread and nothing else blocks it
SpecWaitFair == SpecWait /\ WF_vars(WaitCheck) /\ WF_vars(WaitWake)

\* C9: with the wait flag set the control loop is entered only after the
\* waiter was called with the opening instant and returned, unless the
\* opening instant had already passed when the process read the clock.
C9_NoStartBeforeOpening ==
  (pc = "top" /\ args.wait) =>
    (target = reservations_open(args.date) \/ now >= reservations_open(args.date))

\* C10: wait_until_datetime returns only on a clock reading >= target, and
\* it does not stay inside forever once the clock is at or past target for good.
C10_ReturnsOnlyAtTarget ==
  /\ []((pc \in {"start_driver", "top"} /\ target # None) => w_now >= target)
  /\ ~<>[](pc \in {"wait_check", "wait_sleep"} /\ clock >= target)

\* The waiter was entered before target, woke early at least once (slept,
\* read a clock still before target, slept again) and has returned.
C10_Witness ==
  /\ pc = "start_driver" /\ target # None
  /\ now < target - 1
  /\ time_to_wait = 1
  /\ w_now >= target
\* ------------------------------------------------- the control loop
\* One thing an iteration does to the browser or to the clock.
Click(element) == [op |-> "click", on |-> element, index |-> 0]
ClickLink(i) == [op |-> "click", on |-> "time_slot_elements", index |-> i]
SelectByIndex(i) == [op |-> "select_by_index", on |-> "guest", index |-> i]
\* line 168: the polling interval, in seconds
interval == 2
\* sleep(interval); index holds the seconds slept
Sleep == [op |-> "sleep", on |-> "interval", index |-> interval]
Refresh == [op |-> "refresh", on |-> "driver", index |-> 0]

\* How an iteration ends: `continue` (or the end of the loop body), `break`,
\* or an exception that leaves the loop.
Continue(done) == [effects |-> done, raised |-> "", next |-> "ticked",
                   time_slots |-> <<>>, best_time_slot |-> None]
Break(done) == [effects |-> done, raised |-> "", next |-> "done",
                time_slots |-> <<>>, best_time_slot |-> None]
Raise(exception) == [effects |-> <<>>, raised |-> exception, next |-> "crashed",
                     time_slots |-> <<>>, best_time_slot |-> None]

Has(p, text) == text \in p.page_source

\* lines 339-340: the end of the loop body
Fallback == Continue(<<Sleep, Refresh>>)

\* date(year, month, day): ValueError unless the day exists
ValidDate(y, m, d) ==
  /\ y >= 1 /\ y <= 9999
  /\ m >= 1 /\ m <= 12
  /\ d >= 1 /\ d <= DaysInMonth(y, m)
\* d1 < d2 on datetime.date
DateLess(d1, d2) ==
  \/ d1[1] < d2[1]
  \/ d1[1] = d2[1] /\ d1[2] < d2[2]
  \/ d1[1] = d2[1] /\ d1[2] = d2[2] /\ d1[3] < d2[3]

\* re.split('[^0-9]', header_text): the pieces between the non-digit
\* characters, each <<>> (the empty string) or <<n>> (a digit string)
RECURSIVE ReSplitFrom(_, _, _)
ReSplitFrom(text, i, piece) ==
  IF i > Len(text) THEN <<piece>>
  ELSE IF text[i] = NonDigit THEN <<piece>> \o ReSplitFrom(text, i + 1, <<>>)
  ELSE ReSplitFrom(text, i + 1, <<text[i]>>)
ReSplit(text) == ReSplitFrom(text, 1, <<>>)

\* lines 315-337: the day cell, then the next-step button
DateStep_NoSleepOnMissingCell(p, a) ==
  IF p.date_cell # "absent"
  THEN IF p.date_cell = "unselected"
       THEN Continue(<<Click("date_cell")>>)
       ELSE IF p.next_button
            THEN Continue(<<Click("next_button")>>)
            ELSE Fallback
  ELSE Continue(<<>>)
DateStep(p, a) ==
  IF p.date_cell # "absent"
  THEN IF p.date_cell = "unselected"
       THEN Continue(<<Click("date_cell")>>)
       ELSE IF p.next_button
            THEN Continue(<<Click("next_button")>>)
            ELSE Fallback
  ELSE Continue(<<Sleep>>)

\* lines 293-309: the displayed month differs from the requested one
MonthStep(p, a, y, m) ==
  IF ~ValidDate(y, m, a.date[3]) THEN Raise("ValueError")
  ELSE IF DateLess(<<y, m, a.date[3]>>, a.date)
       THEN IF p.next_month_button
            THEN Continue(<<Click("next_month_button")>>)
            ELSE DateStep(p, a)
  ELSE IF DateLess(a.date, <<y, m, a.date[3]>>)
       THEN IF p.previous_month_button
            THEN Continue(<<Click("previous_month_button")>>)
            ELSE DateStep(p, a)
  ELSE DateStep(p, a)

\* lines 284-313: the calendar header
CalendarStep(p, a) ==
  IF ~p.calendar_header THEN Fallback
  ELSE LET split_text == ReSplit(p.header_text) IN
       IF Len(split_text) >= 2
       THEN IF split_text[1] = <<>> \/ split_text[2] = <<>>
            THEN Raise("ValueError")
            ELSE LET selected_year == split_text[1][1]
                     selected_month == split_text[2][1]
                 IN IF selected_year # a.date[1] \/ selected_month # a.date[2]
                    THEN MonthStep(p, a, selected_year, selected_month)
                    ELSE DateStep(p, a)
       ELSE Continue(<<Sleep>>)

\* lines 275-282: the number of guests
GuestStep(p, a) ==
  IF ~p.guests_selected
  THEN IF p.guest_select
       THEN Continue(<<SelectByIndex(a.guests)>>)
       ELSE Raise("NoSuchElementException")
  ELSE CalendarStep(p, a)

\* re.search(r"(\d{2}:\d{2})", label): the first HH:MM-shaped substring, None
\* (here <<>>) when there is none
ReSearch(label) == IF Len(label) = 0 THEN <<>> ELSE label[1]
\* datetime.strptime(s, "%H:%M").time(): ValueError (here None) unless a time of day
StrpTime(s) == IF s[1] <= 23 /\ s[2] <= 59 THEN s[1] * 60 + s[2] ELSE None

\* lines 249-255: the extraction loop; extracted_time[0] on None is a TypeError
RECURSIVE ExtractFrom_DropUnparseable(_, _, _)
ExtractFrom_DropUnparseable(texts, i, times) ==
  IF i > Len(texts) THEN [raised |-> "", times |-> times]
  ELSE LET extracted_time == ReSearch(texts[i]) IN
       IF extracted_time = <<>> THEN ExtractFrom_DropUnparseable(texts, i + 1, times)
       ELSE IF StrpTime(extracted_time) = None
            THEN [raised |-> "ValueError", times |-> times]
            ELSE ExtractFrom_DropUnparseable(texts, i + 1,
                                             Append(times, StrpTime(extracted_time)))
RECURSIVE ExtractFrom(_, _, _)
ExtractFrom(texts, i, times) ==
  IF i > Len(texts) THEN [raised |-> "", times |-> times]
  ELSE LET extracted_time == ReSearch(texts[i]) IN
       IF extracted_time = <<>> THEN [raised |-> "TypeError", times |-> times]
       ELSE IF StrpTime(extracted_time) = None
            THEN [raised |-> "ValueError", times |-> times]
            ELSE ExtractFrom(texts, i + 1, Append(times, StrpTime(extracted_time)))

\* list.index(x): the first position holding x
IndexOf(list, x) == CHOOSE i \in 1..Len(list) :
                      list[i] = x /\ \A j \in 1..(i - 1) : list[j] # x

\* lines 236-269: the time table
SlotStep(p, a) ==
  IF p.time_slot_elements = <<>> THEN Fallback
  ELSE LET ex == ExtractFrom(p.time_slot_elements, 1, <<>>) IN
       IF ex.raised # ""
       THEN [Raise(ex.raised) EXCEPT !.time_slots = ex.times]
       ELSE LET best == select_best_time(ex.times, a.minTime, a.maxTime) IN
            IF Truthy(best)
            THEN [Continue(<<ClickLink(IndexOf(ex.times, best))>>)
                    EXCEPT !.time_slots = ex.times, !.best_time_slot = best]
            ELSE [Fallback EXCEPT !.time_slots = ex.times]

\* lines 233-337: the Table Reservation page
TableStep_CompleteFirst(p, a) ==
  IF Has(p, TableText)
  THEN IF Has(p, CompleteText) THEN Break(<<>>)
       ELSE IF p.time_table THEN SlotStep(p, a)
       ELSE GuestStep(p, a)
  ELSE Fallback
TableStep(p, a) ==
  IF Has(p, TableText)
  THEN IF p.time_table THEN SlotStep(p, a)
       ELSE IF Has(p, CompleteText) THEN Break(<<>>)
       ELSE GuestStep(p, a)
  ELSE Fallback

\* lines 225-230: congestion
CongestedStep(p, a) ==
  IF Has(p, CongestedText) THEN Continue(<<Sleep, Refresh>>)
  ELSE TableStep(p, a)

\* lines 216-223: the email authentication notice
EmailStep(p, a) ==
  IF Has(p, EmailAuthText) /\ p.continue_button
  THEN Continue(<<Click("continue_button")>>)
  ELSE CongestedStep(p, a)

\* lines 183-214: the terms page
TermsStep_ReloadAfterAgree(p, a) ==
  IF Has(p, TermsText)
  THEN IF p.agree_checkbox
       THEN IF p.agree_checkbox_label
            THEN Continue(<<Click("agree_checkbox_label")>>)
            ELSE Continue(<<Sleep>>)
       ELSE IF p.agree_button
            THEN Continue(<<Click("agree_button"), Sleep, Refresh>>)
            ELSE EmailStep(p, a)
  ELSE EmailStep(p, a)
TermsStep(p, a) ==
  IF Has(p, TermsText)
  THEN IF p.agree_checkbox
       THEN IF p.agree_checkbox_label
            THEN Continue(<<Click("agree_checkbox_label")>>)
            ELSE Continue(<<Sleep>>)
       ELSE IF p.agree_button
            THEN IF Has(p, NoSeatsText)
                 THEN Continue(<<Click("agree_button"), Sleep, Refresh>>)
                 ELSE Continue(<<Click("agree_button")>>)
            ELSE EmailStep(p, a)
  ELSE EmailStep(p, a)

\* lines 172-340: one iteration of the loop body on what the driver reports
Iteration_LoadingLast(p, a) ==
  IF Has(p, CaptchaText) THEN Continue(<<Sleep>>)
  ELSE IF (~p.has_title \/ ~p.has_source)
          /\ p.page_source \cap {TermsText, EmailAuthText, CongestedText, TableText} = {}
       THEN Continue(<<Sleep>>)
  ELSE TermsStep(p, a)
Iteration_CaptchaReloads(p, a) ==
  IF ~p.has_title \/ ~p.has_source THEN Continue(<<Sleep>>)
  ELSE IF Has(p, CaptchaText) THEN Continue(<<Sleep, Refresh>>)
  ELSE TermsStep(p, a)
Iteration(p, a) ==
  IF ~p.has_title \/ ~p.has_source THEN Continue(<<Sleep>>)
  ELSE IF Has(p, CaptchaText) THEN Continue(<<Sleep>>)
  ELSE TermsStep(p, a)
\* ---------------------------------------------------- the pages on offer
\* The parts of a page: the banner texts and the title, the terms form, the
\* email notice, the reservation form.  The elements of a form whose text is
\* not on the page are not looked at by the loop and are left absent.
Banners ==
  {[has_title |-> t, page_source |-> texts] :
     t \in BOOLEAN, texts \in SUBSET {CaptchaText, CongestedText}}
PlainBanner == [has_title |-> TRUE, page_source |-> {}]

NoTerms == [page_source |-> {}, agree_checkbox |-> FALSE,
            agree_checkbox_label |-> FALSE, agree_button |-> FALSE]
TermsForms ==
  {NoTerms} \cup
  {[page_source |-> {TermsText} \cup seats, agree_checkbox |-> cb,
    agree_checkbox_label |-> lb, agree_button |-> bt] :
     seats \in SUBSET {NoSeatsText}, cb \in BOOLEAN, lb \in BOOLEAN, bt \in BOOLEAN}

NoEmail == [page_source |-> {}, continue_button |-> FALSE]
EmailNotices ==
  {NoEmail} \cup {[page_source |-> {EmailAuthText}, continue_button |-> b] : b \in BOOLEAN}

\* "2026年12月": the year, a non-digit, the month, a non-digit
HeaderFor(y, m) == <<y, NonDigit, m, NonDigit>>

NoTable ==
  [page_source |-> {}, time_table |-> FALSE, time_slot_elements |-> <<>>,
   guests_selected |-> FALSE, guest_select |-> FALSE,
   calendar_header |-> FALSE, header_text |-> <<>>,
   next_month_button |-> FALSE, previous_month_button |-> FALSE,
   date_cell |-> "absent", next_button |-> FALSE]
\* The reservation form with everything in place for the requested date d:
\* guests selected, the month of d displayed, its day selected.
TableFor(d) ==
  [page_source |-> {TableText}, time_table |-> FALSE, time_slot_elements |-> <<>>,
   guests_selected |-> TRUE, guest_select |-> TRUE,
   calendar_header |-> TRUE, header_text |-> HeaderFor(d[1], d[2]),
   next_month_button |-> TRUE, previous_month_button |-> TRUE,
   date_cell |-> "selected", next_button |-> TRUE]

\* The calendars of a form: none, or a header text with the pagers, the day
\* cell and the next-step button present or not.
Calendars(headers) ==
  {[calendar_header |-> FALSE, header_text |-> <<>>, next_month_button |-> FALSE,
    previous_month_button |-> FALSE, date_cell |-> "absent", next_button |-> FALSE]}
  \cup
  {[calendar_header |-> TRUE, header_text |-> h, next_month_button |-> nx,
    previous_month_button |-> pv, date_cell |-> dc, next_button |-> nb] :
     h \in headers, nx \in BOOLEAN, pv \in BOOLEAN,
     dc \in {"absent", "unselected", "selected"}, nb \in BOOLEAN}

\* The time tables of a form: none, or the container with a list of slot links.
TimeTables(linkLists) ==
  {[time_table |-> FALSE, time_slot_elements |-> <<>>]} \cup
  {[time_table |-> TRUE, time_slot_elements |-> ls] : ls \in linkLists}

\* Every reservation form over the given header texts and link lists.
TableForms(headers, linkLists) ==
  {NoTable} \cup
  {[page_source |-> {TableText} \cup done,
    time_table |-> tt.time_table, time_slot_elements |-> tt.time_slot_elements,
    guests_selected |-> gs, guest_select |-> ge,
    calendar_header |-> cal.calendar_header, header_text |-> cal.header_text,
    next_month_button |-> cal.next_month_button,
    previous_month_button |-> cal.previous_month_button,
    date_cell |-> cal.date_cell, next_button |-> cal.next_button] :
     done \in SUBSET {CompleteText}, tt \in TimeTables(linkLists),
     gs \in BOOLEAN, ge \in BOOLEAN, cal \in Calendars(headers)}

MakePage(banner, terms, email, table) ==
  [has_title |-> banner.has_title, has_source |-> TRUE,
   page_source |-> banner.page_source \cup terms.page_source
                     \cup email.page_source \cup table.page_source,
   agree_checkbox |-> terms.agree_checkbox,
   agree_checkbox_label |-> terms.agree_checkbox_label,
   agree_button |-> terms.agree_button,
   continue_button |-> email.continue_button,
   time_table |-> table.time_table, time_slot_elements |-> table.time_slot_elements,
   guests_selected |-> table.guests_selected, guest_select |-> table.guest_select,
   calendar_header |-> table.calendar_header, header_text |-> table.header_text,
   next_month_button |-> table.next_month_button,
   previous_month_button |-> table.previous_month_button,
   date_cell |-> table.date_cell, next_button |-> table.next_button]

\* Pages without page_source (still loading), with or without a title.
EmptyPages == {[BlankPage EXCEPT !.has_title = t] : t \in BOOLEAN}

\* Slot link labels used on the pages of the main specification.
Label(hh, mm) == << <<hh, mm>> >>
MainLinkLists == {<<>>, <<Label(10, 25), Label(10, 40)>>, <<Label(10, 25), <<>>>>}
\* Header texts used on the pages of the main specification, the requested
\* date being 2026-12-31: its month, earlier months with 31 and with 30 days,
\* a later month, a text without a month.
MainHeaders == {HeaderFor(2026, 12), HeaderFor(2026, 10), HeaderFor(2026, 11),
                HeaderFor(2027, 1), <<2026>>}

\* One reservation form per step of the form for the requested date d.
StepTables(d) ==
  LET t == TableFor(d) IN
  {NoTable, t,
   [t EXCEPT !.date_cell = "unselected"],
   [t EXCEPT !.header_text = HeaderFor(d[1], d[2] - 2)],
   [t EXCEPT !.calendar_header = FALSE, !.header_text = <<>>,
             !.next_month_button = FALSE, !.previous_month_button = FALSE,
             !.date_cell = "absent", !.next_button = FALSE],
   [t EXCEPT !.guests_selected = FALSE],
   [t EXCEPT !.page_source = {TableText, CompleteText}],
   [t EXCEPT !.time_table = TRUE],
   [t EXCEPT !.time_table = TRUE,
             !.time_slot_elements = <<Label(10, 25), Label(10, 40)>>]}

\* The pages of the main specification: every mixture of banner, terms form
\* and email notice over one form per step, and every reservation form on an
\* otherwise plain page.
Pages(d) ==
  EmptyPages
  \cup {MakePage(b, t, e, f) :
          b \in Banners, t \in TermsForms, e \in EmailNotices, f \in StepTables(d)}
  \cup {MakePage(PlainBanner, NoTerms, NoEmail, f) :
          f \in TableForms(MainHeaders, MainLinkLists)}

\* ------------------------------------------------ actions of the loop
TickedPcs == {"ticked", "done", "crashed"}

\* line 171, top of `while True:`: the driver reports a page (pages)
Observe(pages) ==
  /\ pc = "top"
  /\ page' \in pages
  /\ pc' = "tick"
  /\ UNCHANGED <<args, selectVars, clockVars, effects, raised, session>>

\* lines 172-340: the whole iteration on the reported page
Tick ==
  /\ pc = "tick"
  /\ LET out == Iteration(page, args) IN
       /\ effects' = out.effects
       /\ raised' = out.raised
       /\ pc' = out.next
       /\ time_slots' = out.time_slots
       /\ best_time_slot' = out.best_time_slot
  /\ UNCHANGED <<args, clockVars, page, session>>

\* `continue`, or the end of the loop body: back to line 171 for the next page
NextIteration ==
  /\ pc = "ticked"
  /\ pc' = "top"
  /\ page' = BlankPage /\ effects' = <<>> /\ raised' = ""
  /\ time_slots' = <<>> /\ best_time_slot' = None
  /\ UNCHANGED <<args, clockVars, session>>

\* after `break` (line 273) the script ends
Finish_QuitsDriver ==
  /\ pc = "done"
  /\ pc' = "exited"
  /\ session' = [driver |-> "quit", service |-> "stopped"]
  /\ UNCHANGED <<args, selectVars, clockVars, page, effects, raised>>
Finish ==
  /\ pc = "done"
  /\ pc' = "exited"
  /\ UNCHANGED <<args, selectVars, clockVars, loopVars>>

\* Ctrl+C while the loop runs: line 341-342, the prompt
KeyboardInterrupt ==
  /\ pc \in {"top", "tick"}
  /\ pc' = "prompt"
  /\ UNCHANGED <<args, selectVars, clockVars, loopVars>>

\* Enter at the prompt: lines 343-345
PromptEnter ==
  /\ pc = "prompt"
  /\ session' = [driver |-> "quit", service |-> "stopped"]
  /\ pc' = "exited"
  /\ UNCHANGED <<args, selectVars, clockVars, page, effects, raised>>

\* Ctrl+C at the prompt: input() raises inside the handler and the script ends
PromptInterrupt ==
  /\ pc = "prompt"
  /\ raised' = "KeyboardInterrupt"
  /\ pc' = "exited"
  /\ UNCHANGED <<args, selectVars, clockVars, page, effects, session>>

\* the window was closed or the session ended: lines 346-349
SessionLost_NoStop ==
  /\ pc \in {"top", "tick"}
  /\ session' = [driver |-> "lost", service |-> "running"]
  /\ pc' = "exited"
  /\ UNCHANGED <<args, selectVars, clockVars, page, effects, raised>>
SessionLost ==
  /\ pc \in {"top", "tick"}
  /\ session' = [driver |-> "lost", service |-> "stopped"]
  /\ pc' = "exited"
  /\ UNCHANGED <<args, selectVars, clockVars, page, effects, raised>>

InitLoop(argSet) ==
  /\ pc = "top"
  /\ args \in argSet
  /\ SelectIdle /\ ClockIdle /\ LoopIdle
  /\ session = OpenSession

Init == InitLoop({DefaultArgs})

ObserveMain == Observe(Pages(args.date))

Next ==
  \/ ObserveMain
  \/ Tick
  \/ NextIteration
  \/ Finish
  \/ KeyboardInterrupt
  \/ PromptEnter
  \/ PromptInterrupt
  \/ SessionLost

Spec == Init /\ [][Next]_vars
\* ------------------------------------------- the states the spec names
\* The predicates of the page states, as the spec words them (section 4.2).
IsLoading(p) == ~p.has_title \/ ~p.has_source
IsCaptcha(p) == Has(p, CaptchaText)
IsTermsUnchecked(p) == Has(p, TermsText) /\ p.agree_checkbox
IsTermsUnagreed(p) == Has(p, TermsText) /\ ~p.agree_checkbox /\ p.agree_button
IsEmailAuth(p) == Has(p, EmailAuthText) /\ p.continue_button
IsCongested(p) == Has(p, CongestedText)
IsTablePage(p) == Has(p, TableText)
HeaderParses(p) ==
  /\ p.calendar_header
  /\ Len(ReSplit(p.header_text)) >= 2
  /\ ReSplit(p.header_text)[1] # <<>> /\ ReSplit(p.header_text)[2] # <<>>
DisplayedYear(p) == ReSplit(p.header_text)[1][1]
DisplayedMonth(p) == ReSplit(p.header_text)[2][1]
IsMonthMismatch(p, a) ==
  HeaderParses(p) /\ (DisplayedYear(p) # a.date[1] \/ DisplayedMonth(p) # a.date[2])

\* The earliest matching state in the order of states 1 to 6.
StateOf(p, a) ==
  IF IsCaptcha(p) THEN "CaptchaChallenge"
  ELSE IF IsTermsUnchecked(p) THEN "TermsUnchecked"
  ELSE IF IsTermsUnagreed(p) THEN "TermsUnagreed"
  ELSE IF IsEmailAuth(p) THEN "EmailAuthPrompt"
  ELSE IF IsCongested(p) THEN "Congested"
  ELSE IF ~IsTablePage(p) THEN "Unclassified"
  ELSE IF p.time_table /\ p.time_slot_elements # <<>> THEN "TimeSlotListPresent"
  ELSE IF p.time_table THEN "NoTimeSlotsListed"
  ELSE IF Has(p, CompleteText) THEN "ReservationPendingCompletion"
  ELSE IF ~p.guests_selected THEN "GuestUnset"
  ELSE IF IsMonthMismatch(p, a) THEN "CalendarMonthMismatch"
  ELSE IF HeaderParses(p) /\ p.date_cell = "unselected" THEN "DateUnselected"
  ELSE IF HeaderParses(p) /\ p.date_cell = "selected" /\ p.next_button
       THEN "DateSelectedAwaitingNext"
  ELSE "Unclassified"

\* The clicks and selects of an iteration.
Mutations(done) == {done[i].on : i \in {j \in 1..Len(done) : done[j].op \in {"click", "select_by_index"}}}
\* The elements the handler of a state acts on.
ActsOn(state) ==
  CASE state = "TermsUnchecked" -> {"agree_checkbox_label"}
    [] state = "TermsUnagreed" -> {"agree_button"}
    [] state = "EmailAuthPrompt" -> {"continue_button"}
    [] state = "TimeSlotListPresent" -> {"time_slot_elements"}
    [] state = "GuestUnset" -> {"guest"}
    [] state = "CalendarMonthMismatch" -> {"next_month_button", "previous_month_button"}
    [] state = "DateUnselected" -> {"date_cell"}
    [] state = "DateSelectedAwaitingNext" -> {"next_button"}
    [] OTHER -> {}

C5_DispatchFollowsPriority ==
  (pc \in TickedPcs /\ ~IsLoading(page)) =>
    /\ Mutations(effects) \subseteq ActsOn(StateOf(page, args))
    /\ (pc = "done") => StateOf(page, args) = "ReservationPendingCompletion"

\* The elements a state's handler needs and the page lacks.
NeededElementMissing(p, a) ==
  LET state == StateOf(p, a) IN
  \/ state = "TermsUnchecked" /\ ~p.agree_checkbox_label
  \/ state = "GuestUnset" /\ ~p.guest_select
  \/ state = "CalendarMonthMismatch"
       /\ ValidDate(DisplayedYear(p), DisplayedMonth(p), a.date[3])
       /\ IF DateLess(<<DisplayedYear(p), DisplayedMonth(p), a.date[3]>>, a.date)
          THEN ~p.next_month_button ELSE ~p.previous_month_button
  \/ state = "Unclassified" /\ IsTablePage(p) /\ ~p.time_table /\ p.guests_selected
       /\ \/ ~p.calendar_header
          \/ HeaderParses(p) /\ p.date_cell = "absent"
          \/ HeaderParses(p) /\ p.date_cell = "selected" /\ ~p.next_button

\* C6: when the element the handler needs is missing, the iteration ends
\* with a sleep and goes on to the next one; it raises nothing.
C6_MissingElementSleepsAndRetries ==
  (pc \in TickedPcs /\ ~IsLoading(page) /\ NeededElementMissing(page, args)) =>
    (pc = "ticked" /\ raised = "" /\ Mutations(effects) = {}
       /\ \E i \in 1..Len(effects) : effects[i] = Sleep)
\* --------------------------------------------- specification SpecSlots
\* The loop on Table Reservation pages with a time table, over every list of
\* slot links and every validated pair of bounds.
SlotStrings == {<<0, mm>> : mm \in 0..MaxMinute} \cup {<<24, 0>>}
\* A label has no HH:MM-shaped substring, one, or one followed by an end time.
SlotLabels ==
  {<<>>} \cup {<<s>> : s \in SlotStrings} \cup {<<s, <<23, 59>>>> : s \in SlotStrings}
SlotLinkLists == SeqsUpTo(SlotLabels, MaxLinks)
SlotPages(d) ==
  {MakePage(PlainBanner, NoTerms, NoEmail,
            [TableFor(d) EXCEPT !.time_table = TRUE, !.time_slot_elements = ls]) :
     ls \in SlotLinkLists}
\* line 120: both bounds given means minTime < maxTime
SlotBounds ==
  {b \in ((0..MaxMinute) \cup {None}) \X ((0..MaxMinute) \cup {None}) :
     b[1] = None \/ b[2] = None \/ b[1] < b[2]}
SlotArgs == {[DefaultArgs EXCEPT !.minTime = b[1], !.maxTime = b[2]] : b \in SlotBounds}

InitSlots == InitLoop(SlotArgs)
ObserveSlots == Observe(SlotPages(args.date))
NextSlots ==
  \/ ObserveSlots
  \/ Tick
  \/ NextIteration
SpecSlots == InitSlots /\ [][NextSlots]_vars

\* The times the labels spell: the first HH:MM of every label that has one.
RECURSIVE FirstTimes(_)
FirstTimes(labels) ==
  IF labels = <<>> THEN <<>>
  ELSE (IF Head(labels) = <<>> THEN <<>>
        ELSE <<Head(labels)[1][1] * 60 + Head(labels)[1][2]>>)
       \o FirstTimes(Tail(labels))
AllTimesOfDay(labels) ==
  \A i \in 1..Len(labels) :
    labels[i] # <<>> => (labels[i][1][1] <= 23 /\ labels[i][1][2] <= 59)

\* C7: a label without an HH:MM substring is left out of the extracted
\* times, the other labels yield their first HH:MM in listed order, and the
\* iteration goes on to the selection without an error.
C7_UnparseableLabelsDropped ==
  (pc \in TickedPcs /\ page.time_table /\ page.time_slot_elements # <<>>
     /\ AllTimesOfDay(page.time_slot_elements)) =>
    (raised = "" /\ time_slots = FirstTimes(page.time_slot_elements))

\* ------------------------------------------ specification SpecCalendar
\* The loop on the date step of the reservation form, over requested dates
\* and displayed calendar headers.  Days 2..27 exist in every month, as day 1.
RequestedDays == {1, 28, 29, 30, 31}
RequestedDates ==
  {d \in {2027, 2028} \X (1..12) \X RequestedDays : ValidDate(d[1], d[2], d[3])}
CalendarHeaders ==
  {HeaderFor(y, m) : y \in {2027, 2028}, m \in 1..12}
  \cup {<<>>, <<2027>>, <<NonDigit, 2027, NonDigit, 12>>, <<2027, NonDigit, NonDigit, 12>>}
CalendarPages(d) ==
  {MakePage(PlainBanner, NoTerms, NoEmail,
            [TableFor(d) EXCEPT
               !.calendar_header = cal.calendar_header, !.header_text = cal.header_text,
               !.next_month_button = cal.next_month_button,
               !.previous_month_button = cal.previous_month_button,
               !.date_cell = cal.date_cell, !.next_button = cal.next_button]) :
     cal \in Calendars(CalendarHeaders)}
CalendarArgs == {[DefaultArgs EXCEPT !.date = d] : d \in RequestedDates}

InitCalendar == InitLoop(CalendarArgs)
ObserveCalendar == Observe(CalendarPages(args.date))
NextCalendar ==
  \/ ObserveCalendar
  \/ Tick
  \/ NextIteration
SpecCalendar == InitCalendar /\ [][NextCalendar]_vars

MonthEarlier(y1, m1, y2, m2) == y1 < y2 \/ (y1 = y2 /\ m1 < m2)

\* C8: when the displayed (year, month) differs from the requested one, the
\* iteration clicks the next-month pager if the displayed month is earlier
\* and the previous-month pager if it is later, for every requested day, and
\* raises no error.
C8_MonthPagerDirection ==
  (pc \in TickedPcs /\ StateOf(page, args) = "CalendarMonthMismatch"
     /\ page.next_month_button /\ page.previous_month_button) =>
    /\ raised = ""
    /\ effects =
         IF MonthEarlier(DisplayedYear(page), DisplayedMonth(page),
                         args.date[1], args.date[2])
         THEN <<Click("next_month_button")>>
         ELSE <<Click("previous_month_button")>>

\* ------------------------------------------------ the ends of the process
\* The process has left the control loop for good.
EndPcs == {"exited", "crashed"}
\* What the script has called on the session: quit() on the driver, stop()
\* on the chromedriver service.
ClosedSession == [driver |-> "quit", service |-> "stopped"]
Released(s) == s.service = "stopped"
\* The step that leaves the loop: through `break`, through Enter or Ctrl+C at
\* the prompt, through the session-loss handler, or through an exception no
\* handler catches.
LeavesLoop == pc \notin EndPcs /\ pc' \in EndPcs
LeavesByBreak == pc = "done" /\ pc' = "exited"
LeavesByConfirm == pc = "prompt" /\ pc' = "exited" /\ raised' = ""
LeavesOpenByChoice == pc = "prompt" /\ pc' = "exited" /\ raised' = "KeyboardInterrupt"
LeavesBySessionLoss == pc \in {"top", "tick"} /\ pc' = "exited"
LeavesByCrash == pc = "tick" /\ pc' = "crashed"

\* C11 as stated: on every path out of the control loop the session is
\* released, except when the user chose to leave the browser open at the
\* prompt; in particular it is released on the exit through the terminal state.
C11_ReleasedOnEveryExitAsStated ==
  [][(LeavesLoop /\ ~LeavesByCrash) => (Released(session') <=> ~LeavesOpenByChoice)]_vars

\* C11 (amended): the session is released exactly on the confirmed interrupt
\* (driver quit, service stopped) and on session loss (service stopped); on
\* the exit through the terminal state, on the leave-open choice and on an
\* uncaught exception the script calls nothing on it and it stays as it was.
C11_ReleasedOnConfirmOrLossOnly ==
  [][LeavesLoop =>
       /\ LeavesByConfirm => session' = ClosedSession
       /\ LeavesBySessionLoss => (Released(session') /\ session'.driver # "quit")
       /\ (LeavesByBreak \/ LeavesOpenByChoice \/ LeavesByCrash) => session' = OpenSession
       /\ LeavesByConfirm \/ LeavesBySessionLoss \/ LeavesByBreak
            \/ LeavesOpenByChoice \/ LeavesByCrash]_vars

\* Ctrl+C arrived in the middle of an iteration, Enter was hit at the prompt,
\* and the process ended with the driver quit and the service stopped.
C11_Witness ==
  /\ pc = "exited" /\ page # BlankPage
  /\ session = ClosedSession

\* --------------------------------------------- the place of Loading
\* One of the predicates of states 1 to 6 matches the page.
MatchesOneToSix(p) ==
  \/ IsCaptcha(p) \/ IsTermsUnchecked(p) \/ IsTermsUnagreed(p)
  \/ IsEmailAuth(p) \/ IsCongested(p) \/ IsTablePage(p)
\* The same page once its title and source are there.
Loaded(p) == [p EXCEPT !.has_title = TRUE, !.has_source = TRUE]
\* What the Loading handler does: one sleep, then the next iteration.
OnlySlept == pc = "ticked" /\ effects = <<Sleep>> /\ raised = ""

\* C12 as stated: a page with an empty title or source that matches one of
\* the states 1 to 6 is handled as that state, with the outcome the same page
\* has once its title is there, and not as Loading.
C12_LoadingYieldsToStatesAsStated ==
  (pc \in TickedPcs /\ IsLoading(page) /\ MatchesOneToSix(page)) =>
    LET out == Iteration(Loaded(page), args) IN
      effects = out.effects /\ pc = out.next /\ raised = out.raised

\* C12 (amended): Loading has the highest priority: a page with an empty
\* title or an empty source is handled as Loading (one sleep, no click, no
\* select, no reload), whichever of the states 1 to 6 it matches; a state of
\* 1 to 6 gets its action only on a page with a title and a source.
C12_LoadingComesFirst ==
  pc \in TickedPcs =>
    /\ IsLoading(page) => OnlySlept
    /\ (Mutations(effects) # {} \/ pc = "done" \/ Refresh \in Members(effects))
         => ~IsLoading(page)

\* A terms page with the unchecked checkbox and its label, the title still
\* empty: the iteration slept and clicked nothing.
C12_Witness ==
  /\ OnlySlept
  /\ ~page.has_title /\ page.has_source
  /\ IsTermsUnchecked(page) /\ page.agree_checkbox_label
  /\ ~IsCaptcha(page)

\* ------------------------------------- select_best_time without bounds
\* C13: with neither bound set select_best_time returns the first element of
\* the slot sequence in listed order; on an empty sequence it returns None
\* under every combination of bounds.
C13_NoBoundsFirstAndEmptyNone ==
  pc = "selected" =>
    /\ (args.minTime = None /\ args.maxTime = None /\ Len(time_slots) > 0)
         => best_time_slot = time_slots[1]
    /\ Len(time_slots) = 0 => best_time_slot = None

\* No bounds, three slots, the first one neither the earliest nor the
\* latest and none equal to it: the first one was returned.
C13_Witness ==
  /\ pc = "selected" /\ args.minTime = None /\ args.maxTime = None
  /\ Len(time_slots) = 3
  /\ time_slots[2] < time_slots[1] /\ time_slots[1] < time_slots[3]
  /\ best_time_slot = time_slots[1]

\* ------------------------------------------ the day cell and its month
\* The displayed calendar is the one of the requested year and month.
IsRequestedMonth(p, a) ==
  HeaderParses(p) /\ DisplayedYear(p) = a.date[1] /\ DisplayedMonth(p) = a.date[2]

\* C14: the day cell and the next-step button are clicked only in iterations
\* where the displayed year and month are the requested ones, also when the
\* month differs and the needed month pager is not found.
C14_DayClickOnlyInRequestedMonth ==
  (pc \in TickedPcs /\ Mutations(effects) \cap {"date_cell", "next_button"} # {}) =>
    IsRequestedMonth(page, args)

\* ------------------------------------------------ the slot link clicked
\* The positions of the slot links an iteration clicked.
ClickedLinks(done) ==
  {done[i].index : i \in {j \in 1..Len(done) :
                            done[j].op = "click" /\ done[j].on = "time_slot_elements"}}
\* The time a label spells: its first HH:MM.
LabelTime(label) == label[1][1] * 60 + label[1][2]

\* C15: every slot link the iteration clicks is a listed link whose label
\* spells a time within the bounds that are set, and that time is the value
\* select_best_time returned for the times of the listed links; this holds
\* also when several links spell the same time.
C15_ClickedLinkCarriesSelectedTime ==
  pc \in TickedPcs =>
    \A i \in ClickedLinks(effects) :
      /\ i \in 1..Len(page.time_slot_elements)
      /\ page.time_slot_elements[i] # <<>>
      /\ InRange(LabelTime(page.time_slot_elements[i]), args.minTime, args.maxTime)
      /\ LabelTime(page.time_slot_elements[i]) = best_time_slot
      /\ time_slots = FirstTimes(page.time_slot_elements)
      /\ best_time_slot = select_best_time(time_slots, args.minTime, args.maxTime)

\* Two links spell the same time, a bound is set, and a link was clicked.
C15_Witness ==
  /\ pc = "ticked" /\ ClickedLinks(effects) # {}
  /\ Len(page.time_slot_elements) = 2
  /\ page.time_slot_elements[1] # <<>> /\ page.time_slot_elements[2] # <<>>
  /\ page.time_slot_elements[1][1] = page.time_slot_elements[2][1]
  /\ args.minTime # None /\ args.minTime > 0

\* ------------------------------------------ the unparseable header
\* The iteration reaches the calendar header and its text does not yield a
\* numeric year followed by a numeric month.
HeaderUnparseable(p, a) ==
  /\ ~IsLoading(p) /\ StateOf(p, a) = "Unclassified"
  /\ IsTablePage(p) /\ ~p.time_table /\ p.guests_selected
  /\ p.calendar_header /\ ~HeaderParses(p)

\* C16: on an unparseable calendar header the iteration sleeps one interval,
\* then reloads the page, and raises no error.
C16_UnparseableHeaderSleepsAndReloads ==
  (pc \in TickedPcs /\ HeaderUnparseable(page, args)) =>
    (pc = "ticked" /\ raised = "" /\ effects = <<Sleep, Refresh>>)

\* ------------------------------------------ Loading and the captcha
\* C17: while the page is Loading or shows the captcha text, an iteration
\* does nothing to the browser: no click, no select, no reload, one sleep of
\* one interval; then the loop looks at the page again, with the session as
\* it was, however many such iterations came before.
C17_LoadingAndCaptchaOnlySleep ==
  /\ []((pc \in TickedPcs /\ (IsLoading(page) \/ IsCaptcha(page))) => OnlySlept)
  /\ [][(pc = "ticked" /\ (IsLoading(page) \/ IsCaptcha(page)))
          => (pc' = "top" /\ session' = session)]_vars

\* A page with a title and the captcha text that also shows the terms form
\* with its unchecked checkbox and the congestion text: the iteration slept.
C17_Witness ==
  /\ OnlySlept
  /\ ~IsLoading(page) /\ IsCaptcha(page)
  /\ Has(page, TermsText) /\ page.agree_checkbox /\ page.agree_checkbox_label
  /\ IsCongested(page)

\* ------------------------------------- one mutating action per iteration
\* The number of clicks and selects of an iteration.
MutationCount(done) ==
  Cardinality({j \in 1..Len(done) : done[j].op \in {"click", "select_by_index"}})
\* The agree button is there to be clicked and the no-seats text is shown.
IsTermsUnagreedNoSeats(p, a) ==
  ~IsLoading(p) /\ StateOf(p, a) = "TermsUnagreed" /\ Has(p, NoSeatsText)

\* C18: an iteration performs at most one click or select; one that did
\* goes on to the next iteration with no sleep and no reload, except on
\* TermsUnagreed with the no-seats text, where the agree click is followed
\* by one sleep and a reload.
C18_AtMostOneMutationThenRepoll ==
  pc \in TickedPcs =>
    /\ MutationCount(effects) <= 1
    /\ MutationCount(effects) = 1 =>
         /\ pc = "ticked" /\ raised = ""
         /\ IF IsTermsUnagreedNoSeats(page, args)
            THEN effects = <<Click("agree_button"), Sleep, Refresh>>
            ELSE Len(effects) = 1
    /\ IsTermsUnagreedNoSeats(page, args) => MutationCount(effects) = 1

\* The agree button was clicked on a terms page with the no-seats text, and
\* the iteration slept and reloaded after the click.
C18_Witness ==
  /\ pc = "ticked" /\ IsTermsUnagreedNoSeats(page, args)
  /\ effects = <<Click("agree_button"), Sleep, Refresh>>

\* ------------------------------------------------------ no busy polling
\* The sleeps of an iteration, by position.
Sleeps(done) == {j \in 1..Len(done) : done[j].op = "sleep"}

\* C19: every iteration that performs no click and no select and goes on to
\* the next one sleeps exactly once, for the fixed interval of 2, before
\* anything else it does; so two iterations in a row without a click or
\* select are separated by a sleep.
C19_IdleIterationSleepsOnce ==
  (pc = "ticked" /\ MutationCount(effects) = 0) =>
    /\ Sleeps(effects) = {1}
    /\ effects[1].index = 2
    /\ \A j \in 2..Len(effects) : effects[j] = Refresh

\* The requested month is displayed and its day cell was not found: the
\* iteration slept once and did nothing else.
C19_Witness ==
  /\ pc = "ticked" /\ effects = <<Sleep>>
  /\ ~IsLoading(page) /\ StateOf(page, args) = "Unclassified"
  /\ IsTablePage(page) /\ IsRequestedMonth(page, args)
  /\ page.date_cell = "absent"

\* ------------------------------------------------ the terminal state
\* The quits, stops, clicks and reloads of an iteration.
BrowserCalls(done) == {j \in 1..Len(done) : done[j].op \in {"click", "refresh"}}

\* C20: the iteration that breaks on the pending-completion page does
\* nothing to the browser, and from the break to the end of the process the
\* session stays open: no quit, no stop, no click, no reload.
C20_TerminalLeavesBrowserOpen ==
  /\ [](pc = "done" => (BrowserCalls(effects) = {} /\ session = OpenSession))
  /\ [][pc = "done" => (pc' = "exited" /\ session' = OpenSession /\ effects' = effects)]_vars

\* The process ended through the break on the pending-completion page (no
\* interrupt, no session loss) with the driver open and the service running.
C20_Witness ==
  /\ pc = "exited" /\ raised = "" /\ effects = <<>>
  /\ ~IsLoading(page) /\ StateOf(page, args) = "ReservationPendingCompletion"
  /\ session = OpenSession
====
